---- MODULE Spec2Model ----
(***************************************************************************)
(* Model of anvio/kofam.py: KofamContext (catalog + skip list) and         *)
(* KofamSetup (construction checks, download, decompress, verification,    *)
(* concatenation, hmmpress).  One pipeline object runs at a time on one    *)
(* target directory (kofam_data_dir); the directory outlives the object,   *)
(* so several runs may follow one another on it.                           *)
(***************************************************************************)
EXTENDS Naturals, Sequences, FiniteSets, TLC

VARIABLES
    fs,             \* contents of kofam_data_dir on disk
    remote,         \* what the ftp server serves: ko_list.gz and profiles.tar.gz
    pc,             \* position of the (single-threaded) program
    args,           \* args.reset and anvio.DEBUG of the current run
    ko_dict,        \* self.ko_dict: rows in dict (file) order
    ko_skip_list,   \* self.ko_skip_list
    file_idx,       \* loop index into self.files in download / decompress_files
    hmm_list,       \* the list handed to utils.concatenate_files
    ret_val,        \* return value of utils.run_command
    error,          \* the exception that ended the run, or NoError
    run_no,         \* number of KofamSetup objects constructed so far
    trace,          \* steps the current run has executed, in order
    fs_at_start,    \* fs when the current run's constructor was entered
    hmmpress_calls, \* arguments of the hmmpress invocations of the current run
    prev,           \* how the previous run on this directory ended
    hmmpress_installed  \* whether hmmpress is on the PATH during the current run

vars == <<fs, remote, pc, args, ko_dict, ko_skip_list, file_idx, hmm_list,
          ret_val, error, run_no, trace, fs_at_start, hmmpress_calls, prev, hmmpress_installed>>

----------------------------------------------------------------------------
(* Bounds *)

MaxRuns == 2
MaxCatLen == 2

----------------------------------------------------------------------------
(* Values *)

\* a file of kofam_data_dir: absent, unparsable, or present with its content
NoFile == [state |-> "absent", content |-> <<>>]
Malformed == [state |-> "malformed", content |-> <<>>]
File(c) == [state |-> "file", content |-> c]
NoArchive == [state |-> "absent", content |-> {}]
Archive(m) == [state |-> "file", content |-> m]
NoError == [kind |-> "none", ref |-> "none"]
NoRet == <<>>

\* identifiers of the pipeline runs, and of the skip-list function alone
Ids == {"K00001", "K14936"}
SkipIds == {"K00001", "K14936", "K15035"}

col_names_to_check ==
    <<"threshold", "score_type", "profile_type", "F-measure", "nseq",
      "nseq_used", "alen", "mlen", "eff_nseq", "re/pos">>

CheckedCols == {col_names_to_check[i] : i \in 1..Len(col_names_to_check)}
AllCols == CheckedCols \cup {"definition"}

Sentinel == "-"
RealValue == "329.57"

\* a ko_list row: one value per column; the definition column is always text
RowWith(realCols) ==
    [c \in AllCols |-> IF c = "definition" THEN "text"
                       ELSE IF c \in realCols THEN RealValue ELSE Sentinel]

AllDashRow == RowWith({})
AllRealRow == RowWith(CheckedCols)

\* rows of the pipeline runs: placeholder-only or fully populated
PipelineRows == {AllDashRow, AllRealRow}

\* rows for the skip-list function alone: also one real value among
\* sentinels, and one sentinel among real values, in every column
SkipRows ==
    PipelineRows
    \cup {RowWith({c}) : c \in CheckedCols}
    \cup {RowWith(CheckedCols \ {c}) : c \in CheckedCols}

Keys(d) == {d[i].knum : i \in 1..Len(d)}

\* parsed ko_list files: rows in file order, identifiers unique
CatalogsOver(ids, rows, maxlen) ==
    UNION {
        {d \in [1..n -> [knum : ids, row : rows]] :
            \A i, j \in 1..n : d[i].knum = d[j].knum => i = j}
        : n \in 0..maxlen}

Catalogs == CatalogsOver(Ids, PipelineRows, Cardinality(Ids))
SkipCatalogs == CatalogsOver(SkipIds, SkipRows, MaxCatLen)

Archives == SUBSET Ids

files == <<"ko_list.gz", "profiles.tar.gz">>

\* paths under kofam_data_dir
ko_list_file_path == "ko_list"
kofam_hmm_file_path == "Kofam.hmm"
log_file_path == "00_hmmpress_log.txt"
HmmPath(k) == <<"profiles", k>>

NoDir ==
    [exists |-> FALSE, ko_list |-> NoFile, ko_list_gz |-> NoFile,
     profiles_tar_gz |-> NoArchive, profiles_dir |-> FALSE, profiles |-> {},
     kofam_hmm |-> NoFile, index |-> FALSE, log |-> FALSE]

EmptyDir == [NoDir EXCEPT !.exists = TRUE]

----------------------------------------------------------------------------
(* Pure functions *)

InList(k, list) == \E i \in 1..Len(list) : list[i] = k

\* inner loop of get_ko_skip_list: should_skip stays True unless a checked
\* column, scanned from column i on, holds something else than "-"
RECURSIVE ShouldSkipFrom(_, _)
ShouldSkipAnyDash(row, i) ==
    \E j \in i..Len(col_names_to_check) : row[col_names_to_check[j]] = Sentinel

ShouldSkipFrom(row, i) ==
    IF i > Len(col_names_to_check) THEN TRUE
    ELSE IF ~(row[col_names_to_check[i]] = Sentinel) THEN FALSE
    ELSE ShouldSkipFrom(row, i + 1)

\* outer loop of get_ko_skip_list over ko_dict.keys(), from entry i on
RECURSIVE SkipListFrom(_, _)
SkipListFrom(d, i) ==
    IF i > Len(d) THEN <<>>
    ELSE IF ShouldSkipFrom(d[i].row, 1)
         THEN <<d[i].knum>> \o SkipListFrom(d, i + 1)
         ELSE SkipListFrom(d, i + 1)

get_ko_skip_list(d) == SkipListFrom(d, 1)

\* utils.get_TAB_delimited_file_as_dictionary on ko_list_file_path
get_TAB_delimited_file_as_dictionary(f) ==
    IF ~f.exists \/ f.ko_list.state # "file"
    THEN [ok |-> FALSE, dict |-> <<>>]
    ELSE [ok |-> TRUE, dict |-> f.ko_list.content]

\* os.path.exists(os.path.join(kofam_data_dir, "profiles/%s.hmm" % k))
HmmExists(f, k) == f.exists /\ f.profiles_dir /\ k \in f.profiles

\* the condition of is_database_exists
MarkerExists(f) == HmmExists(f, "K00001")

\* loop of confirm_downloaded_files from entry i on: the exception raised,
\* or NoError when the loop runs to its end
RECURSIVE ConfirmFrom(_, _, _, _)
RECURSIVE ConfirmNoSkipCheck(_, _, _, _)
ConfirmFirstOnly(d, skip, f, i) ==
    IF i > Len(d) THEN NoError
    ELSE IF ~InList(d[i].knum, skip) /\ ~HmmExists(f, d[i].knum)
         THEN [kind |-> "CompletenessError", ref |-> HmmPath(d[i].knum)]
         ELSE NoError

ConfirmNoSkipCheck(d, skip, f, i) ==
    IF i > Len(d) THEN NoError
    ELSE IF ~HmmExists(f, d[i].knum)
         THEN [kind |-> "CompletenessError", ref |-> HmmPath(d[i].knum)]
         ELSE ConfirmNoSkipCheck(d, skip, f, i + 1)

ConfirmFrom(d, skip, f, i) ==
    IF i > Len(d) THEN NoError
    ELSE IF ~InList(d[i].knum, skip) /\ ~HmmExists(f, d[i].knum)
         THEN [kind |-> "CompletenessError", ref |-> HmmPath(d[i].knum)]
         ELSE ConfirmFrom(d, skip, f, i + 1)

confirm_downloaded_files(d, skip, f) == ConfirmFrom(d, skip, f, 1)

\* the list comprehension of run_hmmpress, from entry i on
RECURSIVE HmmListFrom(_, _, _)
HmmListAll(d, skip, i) ==
    [j \in 1..Len(d) |-> HmmPath(d[j].knum)]

HmmListFrom(d, skip, i) ==
    IF i > Len(d) THEN <<>>
    ELSE IF ~InList(d[i].knum, skip)
         THEN <<HmmPath(d[i].knum)>> \o HmmListFrom(d, skip, i + 1)
         ELSE HmmListFrom(d, skip, i + 1)

\* utils.concatenate_files: the contents of the listed files, in list order
\* (the content of profiles/K.hmm is written K)
concatenate_files(list) == [j \in 1..Len(list) |-> list[j][2]]

\* filesnpaths.gen_output_directory(kofam_data_dir, delete_if_exists): the
\* directory is created, after its contents were deleted when
\* delete_if_exists is set.  A filesystem that refuses the deletion or the
\* creation is not modelled.
gen_output_directory(f, delete_if_exists) ==
    IF f.exists /\ ~delete_if_exists THEN f ELSE EmptyDir

----------------------------------------------------------------------------
(* Initial states *)

InitDirs ==
    {NoDir, EmptyDir}
    \cup {[EmptyDir EXCEPT !.ko_list = File(c)] : c \in Catalogs}
    \cup {[EmptyDir EXCEPT !.ko_list = Malformed]}
    \cup {[EmptyDir EXCEPT !.profiles_dir = TRUE, !.profiles = {"K00001"}]}

Init ==
    /\ fs \in InitDirs
    /\ remote \in [ko_list : Catalogs, profiles : Archives]
    /\ pc = "idle"
    /\ args = [reset |-> FALSE, debug |-> FALSE]
    /\ ko_dict = <<>>
    /\ ko_skip_list = <<>>
    /\ file_idx = 1
    /\ hmm_list = <<>>
    /\ ret_val = NoRet
    /\ error = NoError
    /\ run_no = 0
    /\ trace = <<>>
    /\ fs_at_start = fs
    /\ hmmpress_calls = <<>>
    /\ prev = [pc |-> "idle", error |-> NoError]
    /\ hmmpress_installed = TRUE

----------------------------------------------------------------------------
(* Steps *)

Fail(kind, ref) ==
    /\ pc' = "Failed"
    /\ error' = [kind |-> kind, ref |-> ref]

KofamContextInitLenient ==
    /\ pc \in {"idle", "Indexed", "Failed"}
    /\ run_no < MaxRuns
    /\ \E reset, debug \in BOOLEAN : args' = [reset |-> reset, debug |-> debug]
    /\ run_no' = run_no + 1
    /\ fs_at_start' = fs
    /\ trace' = <<"load_ko_dict">>
    /\ file_idx' = 1
    /\ hmm_list' = <<>>
    /\ ret_val' = NoRet
    /\ hmmpress_calls' = <<>>
    /\ prev' = [pc |-> pc, error |-> error]
    /\ hmmpress_installed' \in BOOLEAN
    /\ LET r == get_TAB_delimited_file_as_dictionary(fs) IN
         /\ ko_dict' = r.dict
         /\ ko_skip_list' = get_ko_skip_list(r.dict)
         /\ pc' = "is_program_exists"
         /\ error' = NoError
    /\ UNCHANGED <<fs, remote>>

\* KofamSetup.__init__ up to and including KofamContext.__init__
KofamContextInit ==
    /\ pc \in {"idle", "Indexed", "Failed"}
    /\ run_no < MaxRuns
    /\ \E reset, debug \in BOOLEAN : args' = [reset |-> reset, debug |-> debug]
    /\ run_no' = run_no + 1
    /\ fs_at_start' = fs
    /\ trace' = <<"load_ko_dict">>
    /\ file_idx' = 1
    /\ hmm_list' = <<>>
    /\ ret_val' = NoRet
    /\ hmmpress_calls' = <<>>
    /\ prev' = [pc |-> pc, error |-> error]
    /\ hmmpress_installed' \in BOOLEAN
    /\ LET r == get_TAB_delimited_file_as_dictionary(fs) IN
         IF r.ok
         THEN /\ ko_dict' = r.dict
              /\ ko_skip_list' = get_ko_skip_list(r.dict)
              /\ pc' = "is_program_exists"
              /\ error' = NoError
         ELSE /\ ko_dict' = <<>>
              /\ ko_skip_list' = <<>>
              /\ Fail("DataAccessError", ko_list_file_path)
    /\ UNCHANGED <<fs, remote>>

IsProgramExistsIgnoreDebug ==
    /\ pc = "is_program_exists"
    /\ trace' = Append(trace, "is_program_exists")
    /\ IF hmmpress_installed
       THEN /\ pc' = IF ~args.reset
                     THEN "is_database_exists" ELSE "gen_output_directory"
            /\ UNCHANGED error
       ELSE Fail("PreconditionError", "hmmpress")
    /\ UNCHANGED <<fs, remote, args, ko_dict, ko_skip_list, file_idx, hmm_list,
                   ret_val, run_no, fs_at_start, hmmpress_calls, prev,
                   hmmpress_installed>>

\* filesnpaths.is_program_exists('hmmpress'), then the test of line 114
IsProgramExists ==
    /\ pc = "is_program_exists"
    /\ trace' = Append(trace, "is_program_exists")
    /\ IF hmmpress_installed
       THEN /\ pc' = IF ~args.reset /\ ~args.debug
                     THEN "is_database_exists" ELSE "gen_output_directory"
            /\ UNCHANGED error
       ELSE Fail("PreconditionError", "hmmpress")
    /\ UNCHANGED <<fs, remote, args, ko_dict, ko_skip_list, file_idx, hmm_list,
                   ret_val, run_no, fs_at_start, hmmpress_calls, prev, hmmpress_installed>>

IsDatabaseExists ==
    /\ pc = "is_database_exists"
    /\ trace' = Append(trace, "is_database_exists")
    /\ IF MarkerExists(fs)
       THEN Fail("PreconditionError", "kofam_data_dir")
       ELSE pc' = "gen_output_directory" /\ UNCHANGED error
    /\ UNCHANGED <<fs, remote, args, ko_dict, ko_skip_list, file_idx, hmm_list,
                   ret_val, run_no, fs_at_start, hmmpress_calls, prev, hmmpress_installed>>

\* line 117, then lines 122-123: the constructor returns
GenOutputDirectory ==
    /\ pc = "gen_output_directory"
    /\ trace' = Append(trace, "gen_output_directory")
    /\ fs' = gen_output_directory(fs, args.reset)
    /\ pc' = "constructed"
    /\ UNCHANGED <<remote, args, ko_dict, ko_skip_list, file_idx, hmm_list,
                   ret_val, error, run_no, fs_at_start, hmmpress_calls, prev, hmmpress_installed>>

SetupProfilesSkipDownload ==
    /\ pc = "constructed"
    /\ pc' = "decompress_files"
    /\ file_idx' = 1
    /\ UNCHANGED <<fs, remote, args, ko_dict, ko_skip_list, hmm_list, ret_val,
                   error, run_no, trace, fs_at_start, hmmpress_calls, prev, hmmpress_installed>>

\* the caller invokes setup_profiles, which enters download
SetupProfiles ==
    /\ pc = "constructed"
    /\ pc' = "download"
    /\ file_idx' = 1
    /\ UNCHANGED <<fs, remote, args, ko_dict, ko_skip_list, hmm_list, ret_val,
                   error, run_no, trace, fs_at_start, hmmpress_calls, prev, hmmpress_installed>>

\* one iteration of the loop of download: utils.download_file
Download ==
    /\ pc = "download"
    /\ trace' = Append(trace, "download " \o files[file_idx])
    /\ \E fetched \in BOOLEAN :
         IF fetched
         THEN /\ fs' = IF file_idx = 1
                       THEN [fs EXCEPT !.ko_list_gz = File(remote.ko_list)]
                       ELSE [fs EXCEPT !.profiles_tar_gz = Archive(remote.profiles)]
              /\ IF file_idx < Len(files)
                 THEN pc' = pc /\ file_idx' = file_idx + 1
                 ELSE pc' = "decompress_files" /\ file_idx' = 1
              /\ UNCHANGED error
         ELSE /\ Fail("TransportError", files[file_idx])
              /\ UNCHANGED <<fs, file_idx>>
    /\ UNCHANGED <<remote, args, ko_dict, ko_skip_list, hmm_list, ret_val,
                   run_no, fs_at_start, hmmpress_calls, prev, hmmpress_installed>>

DecompressedKeepOriginal(f, file_name) ==
    IF file_name = "profiles.tar.gz"
    THEN [f EXCEPT !.profiles_dir = TRUE,
                   !.profiles = @ \cup f.profiles_tar_gz.content]
    ELSE [f EXCEPT !.ko_list = f.ko_list_gz]

\* the body of the loop of decompress_files: a name ending in tar.gz is
\* extracted into kofam_data_dir, any other is gunzipped beside itself, and
\* the compressed original is removed
Decompressed(f, file_name) ==
    IF file_name = "profiles.tar.gz"
    THEN [f EXCEPT !.profiles_dir = TRUE,
                   !.profiles = @ \cup f.profiles_tar_gz.content,
                   !.profiles_tar_gz = NoArchive]
    ELSE [f EXCEPT !.ko_list = f.ko_list_gz,
                   !.ko_list_gz = NoFile]

\* one iteration of the loop of decompress_files: utils.tar_extract_file for
\* a name ending in tar.gz, utils.gzip_decompress_file otherwise, both with
\* keep_original=False
DecompressFiles ==
    /\ pc = "decompress_files"
    /\ trace' = Append(trace, "decompress " \o files[file_idx])
    /\ \E expanded \in BOOLEAN :
         IF expanded
         THEN /\ fs' = Decompressed(fs, files[file_idx])
              /\ IF file_idx < Len(files)
                 THEN pc' = pc /\ file_idx' = file_idx + 1
                 ELSE pc' = "confirm_downloaded_files" /\ file_idx' = 1
              /\ UNCHANGED error
         ELSE /\ Fail("DecompressError", files[file_idx])
              /\ UNCHANGED <<fs, file_idx>>
    /\ UNCHANGED <<remote, args, ko_dict, ko_skip_list, hmm_list, ret_val,
                   run_no, fs_at_start, hmmpress_calls, prev, hmmpress_installed>>

ConfirmDownloadedFilesReload ==
    /\ pc = "confirm_downloaded_files"
    /\ trace' = Append(trace, "confirm_downloaded_files")
    /\ ko_dict' = fs.ko_list.content
    /\ ko_skip_list' = get_ko_skip_list(ko_dict')
    /\ LET e == confirm_downloaded_files(ko_dict', ko_skip_list', fs) IN
         IF e = NoError
         THEN pc' = "concatenate" /\ UNCHANGED error
         ELSE Fail(e.kind, e.ref)
    /\ UNCHANGED <<fs, remote, args, file_idx, hmm_list, ret_val, run_no,
                   fs_at_start, hmmpress_calls, prev, hmmpress_installed>>

\* run_hmmpress, line 170
ConfirmDownloadedFiles ==
    /\ pc = "confirm_downloaded_files"
    /\ trace' = Append(trace, "confirm_downloaded_files")
    /\ LET e == confirm_downloaded_files(ko_dict, ko_skip_list, fs) IN
         IF e = NoError
         THEN pc' = "concatenate" /\ UNCHANGED error
         ELSE Fail(e.kind, e.ref)
    /\ UNCHANGED <<fs, remote, args, ko_dict, ko_skip_list, file_idx, hmm_list,
                   ret_val, run_no, fs_at_start, hmmpress_calls, prev, hmmpress_installed>>

\* run_hmmpress, lines 173-174
Concatenate ==
    /\ pc = "concatenate"
    /\ trace' = Append(trace, "concatenate")
    /\ hmm_list' = HmmListFrom(ko_dict, ko_skip_list, 1)
    /\ fs' = [fs EXCEPT !.kofam_hmm = File(concatenate_files(hmm_list'))]
    /\ pc' = "rmtree"
    /\ UNCHANGED <<remote, args, ko_dict, ko_skip_list, file_idx, ret_val,
                   error, run_no, fs_at_start, hmmpress_calls, prev, hmmpress_installed>>

RemovesProfilesAlways == TRUE

RemovesProfilesNever == FALSE

\* the test of line 177
RemovesProfiles == ~args.debug

\* run_hmmpress, lines 177-178
RemoveProfiles ==
    /\ pc = "rmtree"
    /\ IF RemovesProfiles
       THEN /\ fs' = [fs EXCEPT !.profiles_dir = FALSE, !.profiles = {}]
            /\ trace' = Append(trace, "rmtree")
       ELSE UNCHANGED <<fs, trace>>
    /\ pc' = "run_command"
    /\ UNCHANGED <<remote, args, ko_dict, ko_skip_list, file_idx, hmm_list,
                   ret_val, error, run_no, fs_at_start, hmmpress_calls, prev, hmmpress_installed>>

\* run_hmmpress, lines 181-183: hmmpress runs on the compiled file, its
\* output goes to the log file, its exit status comes back
RunCommand ==
    /\ pc = "run_command"
    /\ trace' = Append(trace, "hmmpress")
    /\ hmmpress_calls' = Append(hmmpress_calls, kofam_hmm_file_path)
    /\ \E status \in {0, 1} :
         /\ ret_val' = <<status>>
         /\ fs' = [fs EXCEPT !.log = TRUE,
                             !.index = IF status = 0 THEN TRUE ELSE @]
    /\ pc' = "check_ret_val"
    /\ UNCHANGED <<remote, args, ko_dict, ko_skip_list, file_idx, hmm_list,
                   error, run_no, fs_at_start, prev, hmmpress_installed>>

CheckRetValRemoveLogFirst ==
    /\ pc = "check_ret_val"
    /\ fs' = [fs EXCEPT !.log = FALSE]
    /\ IF ret_val[1] # 0
       THEN Fail("ExternalToolError", log_file_path)
       ELSE pc' = "Indexed" /\ UNCHANGED error
    /\ UNCHANGED <<remote, args, ko_dict, ko_skip_list, file_idx, hmm_list,
                   ret_val, run_no, trace, fs_at_start, hmmpress_calls, prev, hmmpress_installed>>

\* run_hmmpress, lines 185-192
CheckRetVal ==
    /\ pc = "check_ret_val"
    /\ IF ret_val[1] # 0
       THEN Fail("ExternalToolError", log_file_path) /\ UNCHANGED fs
       ELSE /\ fs' = [fs EXCEPT !.log = FALSE]
            /\ pc' = "Indexed"
            /\ UNCHANGED error
    /\ UNCHANGED <<remote, args, ko_dict, ko_skip_list, file_idx, hmm_list,
                   ret_val, run_no, trace, fs_at_start, hmmpress_calls, prev, hmmpress_installed>>

Next ==
    \/ KofamContextInit
    \/ IsProgramExists
    \/ IsDatabaseExists
    \/ GenOutputDirectory
    \/ SetupProfiles
    \/ Download
    \/ DecompressFiles
    \/ ConfirmDownloadedFiles
    \/ Concatenate
    \/ RemoveProfiles
    \/ RunCommand
    \/ CheckRetVal

Spec == Init /\ [][Next]_vars

TypeOK ==
    /\ pc \in {"idle", "is_program_exists", "is_database_exists",
               "gen_output_directory", "constructed", "download",
               "decompress_files", "confirm_downloaded_files", "concatenate",
               "rmtree", "run_command", "check_ret_val", "Indexed", "Failed"}
    /\ run_no \in 0..MaxRuns
    /\ file_idx \in 1..Len(files)

----------------------------------------------------------------------------
(* The skip-list function on its own: any ko_dict, then get_ko_skip_list *)

SkipInit ==
    /\ ko_dict \in SkipCatalogs
    /\ ko_skip_list = <<>>
    /\ pc = "get_ko_skip_list"
    /\ fs = NoDir
    /\ remote = [ko_list |-> <<>>, profiles |-> {}]
    /\ args = [reset |-> FALSE, debug |-> FALSE]
    /\ file_idx = 1
    /\ hmm_list = <<>>
    /\ ret_val = NoRet
    /\ error = NoError
    /\ run_no = 0
    /\ trace = <<>>
    /\ fs_at_start = NoDir
    /\ hmmpress_calls = <<>>
    /\ prev = [pc |-> "idle", error |-> NoError]
    /\ hmmpress_installed = TRUE

GetKoSkipList ==
    /\ pc = "get_ko_skip_list"
    /\ ko_skip_list' = get_ko_skip_list(ko_dict)
    /\ pc' = "skip_list_returned"
    /\ UNCHANGED <<fs, remote, args, ko_dict, file_idx, hmm_list, ret_val,
                   error, run_no, trace, fs_at_start, hmmpress_calls, prev, hmmpress_installed>>

SkipNext == GetKoSkipList

SkipSpec == SkipInit /\ [][SkipNext]_vars

----------------------------------------------------------------------------
(* Vocabulary of the properties *)

InTrace(step) == \E i \in 1..Len(trace) : trace[i] = step

\* an entry is placeholder-only: every designated column holds the sentinel
PlaceholderOnly(row) == \A c \in CheckedCols : row[c] = Sentinel

Elems(list) == {list[i] : i \in 1..Len(list)}

\* positions of the constructor before the directory is prepared
InConstructorChecks == pc \in {"is_program_exists", "is_database_exists"}

NoDownloadYet ==
    ~InTrace("download ko_list.gz") /\ ~InTrace("download profiles.tar.gz")

\* indices of ko_dict whose identifier is not skip-listed and has no profile file
MissingIdx(d, skip, f) ==
    {i \in 1..Len(d) : d[i].knum \notin Elems(skip) /\ ~HmmExists(f, d[i].knum)}

----------------------------------------------------------------------------
(* C1: a run started on a directory without a prior installation (absent   *)
(* or empty), with hmmpress installed, every fetch and decompression       *)
(* succeeding, a consistent archive and hmmpress exiting 0, reaches        *)
(* Indexed: such a run can fail for none but one of those excluded causes. *)
C1_FreshSetupReachesIndexed ==
    (run_no = 1 /\ fs_at_start \in {NoDir, EmptyDir} /\ pc = "Failed")
        => error.kind \in {"PreconditionError", "TransportError",
                           "DecompressError", "CompletenessError",
                           "ExternalToolError"}

(* C3: with the marker profiles/K00001.hmm in the directory and neither    *)
(* reset nor debug, construction fails with a PreconditionError, nothing   *)
(* is downloaded and the directory is left as it was.                      *)
C3_MarkerFailsConstruction ==
    (run_no >= 1 /\ MarkerExists(fs_at_start) /\ ~args.reset /\ ~args.debug)
        => /\ InConstructorChecks \/ pc = "Failed"
           /\ pc = "Failed" => error.kind = "PreconditionError"
           /\ NoDownloadYet
           /\ fs = fs_at_start

(* C4: after a run that reached Indexed, a new construction on the same    *)
(* directory without reset and without debug fails with a                  *)
(* PreconditionError and leaves the installation untouched.  Stated for    *)
(* installations whose compiled file holds K00001, the identifier the      *)
(* marker file is named after.                                             *)
C4_GuardDetectsPriorSetup ==
    (/\ run_no >= 2 /\ prev.pc = "Indexed" /\ ~args.reset /\ ~args.debug
     /\ "K00001" \in Elems(fs_at_start.kofam_hmm.content))
        => /\ InConstructorChecks \/ pc = "Failed"
           /\ pc = "Failed" => error.kind = "PreconditionError"
           /\ NoDownloadYet
           /\ fs = fs_at_start

\* the run has expanded both downloaded files
DecompressDone ==
    /\ InTrace("decompress profiles.tar.gz")
    /\ ~(pc = "Failed" /\ error.kind = "DecompressError")

(* C2: in a run whose catalog has, after decompression, a non-skip         *)
(* identifier without profile file, the program is at the verification or  *)
(* has Failed with a CompletenessError naming a missing path; the compiled *)
(* file has not been written and hmmpress has not been invoked.  (Before   *)
(* rmtree the profiles directory is as decompression left it.)             *)
C2_MissingProfileFailsRun ==
    LET m == MissingIdx(ko_dict, ko_skip_list, fs) IN
    (DecompressDone /\ ~InTrace("rmtree") /\ m # {})
        => /\ pc \in {"confirm_downloaded_files", "Failed"}
           /\ pc = "Failed" =>
                /\ error.kind = "CompletenessError"
                /\ \E i \in m : error.ref = HmmPath(ko_dict[i].knum)
           /\ ~InTrace("concatenate")
           /\ fs.kofam_hmm \in {fs_at_start.kofam_hmm, NoFile}
           /\ ~InTrace("hmmpress")
           /\ hmmpress_calls = <<>>

C2_Witness ==
    /\ pc = "Failed"
    /\ error.kind = "CompletenessError"
    /\ DecompressDone
    /\ MissingIdx(ko_dict, ko_skip_list, fs) # {}
    /\ Len(ko_dict) = 2

(* C5: get_ko_skip_list returns identifiers of the catalog only, and an    *)
(* identifier is returned iff all ten designated columns of its entry hold *)
(* "-"; the empty catalog gives the empty list.                            *)
C5_SkipListIffAllSentinel ==
    pc = "skip_list_returned"
        => /\ Elems(ko_skip_list) \subseteq Keys(ko_dict)
           /\ \A i \in 1..Len(ko_dict) :
                ko_dict[i].knum \in Elems(ko_skip_list)
                    <=> PlaceholderOnly(ko_dict[i].row)
           /\ ko_dict = <<>> => ko_skip_list = <<>>
           /\ Len(col_names_to_check) = 10

C5_Witness ==
    /\ pc = "skip_list_returned"
    /\ Len(ko_dict) = 2
    /\ ko_dict[1].row = AllDashRow
    /\ ko_dict[2].row = RowWith({"re/pos"})
    /\ ko_skip_list = <<ko_dict[1].knum>>

MinOf(S) == CHOOSE i \in S : \A j \in S : i <= j

(* C6: right after confirm_downloaded_files, if some non-skip identifier   *)
(* has no profile file the run has Failed with the error of the first such *)
(* identifier in catalog order; if none is missing the check has passed,   *)
(* whatever files of skip-listed identifiers exist.                        *)
C6_ConfirmFailsOnFirstMissing ==
    (trace # <<>> /\ trace[Len(trace)] = "confirm_downloaded_files")
        => LET m == MissingIdx(ko_dict, ko_skip_list, fs) IN
             IF m # {}
             THEN /\ pc = "Failed"
                  /\ error = [kind |-> "CompletenessError",
                              ref |-> HmmPath(ko_dict[MinOf(m)].knum)]
             ELSE /\ pc = "concatenate"
                  /\ error = NoError

C6_Witness ==
    /\ trace # <<>> /\ trace[Len(trace)] = "confirm_downloaded_files"
    /\ Cardinality(MissingIdx(ko_dict, ko_skip_list, fs)) = 2
    /\ pc = "Failed"
    /\ error.ref = HmmPath(ko_dict[1].knum)

\* indices of ko_dict whose identifier is not skip-listed
NonSkipIdx == {i \in 1..Len(ko_dict) : ko_dict[i].knum \notin Elems(ko_skip_list)}

\* the j-th smallest element of NonSkipIdx
NthNonSkip(j) ==
    CHOOSE i \in NonSkipIdx : Cardinality({m \in NonSkipIdx : m <= i}) = j

(* C7: the list concatenated into Kofam.hmm is the profile paths of the    *)
(* non-skip identifiers of the catalog, each once, in catalog order; no    *)
(* skip-listed identifier's file is in it.                                 *)
C7_HmmListIsNonSkipInOrder ==
    InTrace("concatenate")
        => /\ Len(hmm_list) = Cardinality(NonSkipIdx)
           /\ \A j \in 1..Len(hmm_list) :
                hmm_list[j] = HmmPath(ko_dict[NthNonSkip(j)].knum)
           /\ \A k \in Elems(ko_skip_list) : HmmPath(k) \notin Elems(hmm_list)
           /\ fs.kofam_hmm.state = "file"
           /\ fs.kofam_hmm.content =
                [j \in 1..Len(hmm_list) |-> ko_dict[NthNonSkip(j)].knum]

C7_Witness ==
    /\ InTrace("concatenate")
    /\ Len(hmm_list) = 1
    /\ \E k \in Elems(ko_skip_list) : HmmExists(fs, k)

\* the steps of setup_profiles, in the order of the code
StageSteps ==
    <<"download ko_list.gz", "download profiles.tar.gz",
      "decompress ko_list.gz", "decompress profiles.tar.gz",
      "confirm_downloaded_files", "concatenate", "hmmpress">>

\* the error a failing step raises
ErrorKindOf(step) ==
    CASE step \in {"download ko_list.gz", "download profiles.tar.gz"}
            -> "TransportError"
      [] step \in {"decompress ko_list.gz", "decompress profiles.tar.gz"}
            -> "DecompressError"
      [] step = "confirm_downloaded_files" -> "CompletenessError"
      [] step = "hmmpress" -> "ExternalToolError"
      [] step = "load_ko_dict" -> "DataAccessError"
      [] OTHER -> "PreconditionError"

\* every stage step in the trace comes after all the stage steps before it
StagesInOrder ==
    \A k \in 1..Len(StageSteps) :
        \A i \in 1..Len(trace) :
            trace[i] = StageSteps[k]
                => /\ \A j \in 1..(k - 1) :
                        \E h \in 1..(i - 1) : trace[h] = StageSteps[j]
                   /\ \A h \in 1..(i - 1) : trace[h] # StageSteps[k]

(* C8: the stages run in the order download, decompress, verify and        *)
(* concatenate, index, each after the previous ones; a failed run carries  *)
(* the error of the step that failed, and from Failed the only step is the *)
(* construction of a new pipeline.                                         *)
C8_StagesInSequence ==
    /\ [](StagesInOrder
          /\ (pc = "Failed" => error.kind = ErrorKindOf(trace[Len(trace)])))
    /\ [][pc = "Failed" => run_no' = run_no + 1]_vars

C8_Witness ==
    /\ pc = "Failed"
    /\ error.kind = "DecompressError"
    /\ trace[Len(trace)] = "decompress profiles.tar.gz"

(* C9: when hmmpress has returned and run_hmmpress is over, a non-zero     *)
(* status has Failed the run with an ExternalToolError referencing the log *)
(* file, which is still there; status 0 has deleted the log file and the   *)
(* run is Indexed.                                                         *)
C9_LogKeptOnFailureOnly ==
    (pc \in {"Failed", "Indexed"} /\ ret_val # NoRet)
        => IF ret_val[1] # 0
           THEN /\ pc = "Failed"
                /\ error = [kind |-> "ExternalToolError", ref |-> log_file_path]
                /\ fs.log
           ELSE /\ pc = "Indexed"
                /\ error = NoError
                /\ ~fs.log

C9_Witness ==
    /\ pc = "Failed"
    /\ error.kind = "ExternalToolError"
    /\ fs.log
    /\ fs.kofam_hmm.content # <<>>

(* C10: when a run reaches Indexed, every identifier of the metadata table *)
(* downloaded in that run that is not placeholder-only had its profile in  *)
(* the extracted archive and is in the compiled file.                      *)
C10_VerifiesDownloadedTable ==
    pc = "Indexed"
        => \A i \in 1..Len(remote.ko_list) :
             ~PlaceholderOnly(remote.ko_list[i].row)
                => /\ remote.ko_list[i].knum \in remote.profiles
                   /\ remote.ko_list[i].knum \in Elems(fs.kofam_hmm.content)

(* C11 as stated: in a debug run the existence guard is not evaluated, and *)
(* at Indexed both the profiles subdirectory and the hmmpress log file are *)
(* still in the directory.                                                 *)
C11_DebugKeepsProfilesAndLog ==
    (run_no >= 1 /\ args.debug)
        => /\ ~InTrace("is_database_exists")
           /\ pc = "Indexed" => (fs.profiles_dir /\ fs.log)

(* C11 as amended: in a debug run the existence guard is not evaluated,    *)
(* and at Indexed the profiles subdirectory is still there with every      *)
(* extracted profile, while the log file has been deleted as after any     *)
(* successful hmmpress.                                                    *)
C11_DebugKeepsProfilesOnly ==
    (run_no >= 1 /\ args.debug)
        => /\ ~InTrace("is_database_exists")
           /\ pc = "Indexed" =>
                /\ fs.profiles_dir
                /\ remote.profiles \subseteq fs.profiles
                /\ ~fs.log

C11_Witness ==
    /\ args.debug /\ ~args.reset
    /\ MarkerExists(fs_at_start)
    /\ pc = "Indexed"
    /\ fs.profiles # {}

(* C12: a run started with reset on a directory holding the marker file is *)
(* not stopped by the existence guard, begins its first download on the    *)
(* emptied directory, and (hmmpress being installed) goes through the four *)
(* stages: it can fail only for a failed fetch, decompression,             *)
(* verification or hmmpress.                                               *)
C12_ResetClearsAndProceeds ==
    (run_no >= 1 /\ args.reset /\ MarkerExists(fs_at_start)
                 /\ hmmpress_installed)
        => /\ ~InTrace("is_database_exists")
           /\ (pc = "download" /\ file_idx = 1) => fs = EmptyDir
           /\ pc = "Failed" =>
                error.kind \in {"TransportError", "DecompressError",
                                "CompletenessError", "ExternalToolError"}

(* C13: when hmmpress is not installed, construction fails with the        *)
(* missing-dependency PreconditionError, no stage runs and the directory   *)
(* is neither created nor cleared, whatever reset and debug are.           *)
C13_MissingToolFailsConstruction ==
    (run_no >= 1 /\ ~hmmpress_installed)
        => /\ fs = fs_at_start
           /\ \/ pc = "is_program_exists"
              \/ /\ pc = "Failed"
                 /\ error = [kind |-> "PreconditionError", ref |-> "hmmpress"]

\* the run is past the test of line 177
PastRmtreeTest ==
    \/ pc \in {"run_command", "check_ret_val", "Indexed"}
    \/ pc = "Failed" /\ error.kind = "ExternalToolError"

C15_CatalogFixedAtConstruction ==
    /\ [][run_no' = run_no =>
            (ko_dict' = ko_dict /\ ko_skip_list' = ko_skip_list)]_vars
    /\ []((run_no >= 1 /\ fs_at_start.exists
                       /\ fs_at_start.ko_list.state = "file")
            => /\ ko_dict = fs_at_start.ko_list.content
               /\ Elems(ko_skip_list) =
                    {ko_dict[i].knum : i \in
                        {j \in 1..Len(ko_dict) : PlaceholderOnly(ko_dict[j].row)}})

C15_Witness ==
    /\ pc = "Indexed"
    /\ args.reset
    /\ fs.ko_list.state = "file"
    /\ fs.ko_list.content # ko_dict
    /\ ko_skip_list # get_ko_skip_list(fs.ko_list.content)

(* C16: after a run that failed at verification or at hmmpress, a new      *)
(* construction on the same directory without reset and without debug      *)
(* (hmmpress being installed) does not get past the existence guard: it    *)
(* fails there, before the directory is touched and any download.          *)
C16_FailedRunNeedsReset ==
    (/\ run_no >= 2
     /\ prev.pc = "Failed"
     /\ prev.error.kind \in {"CompletenessError", "ExternalToolError"}
     /\ ~args.reset /\ ~args.debug /\ hmmpress_installed)
        => /\ \/ InConstructorChecks
              \/ /\ pc = "Failed"
                 /\ error = [kind |-> "PreconditionError",
                             ref |-> "kofam_data_dir"]
           /\ NoDownloadYet
           /\ fs = fs_at_start

\* the directory as the constructor leaves it
PreparedDir == gen_output_directory(fs_at_start, args.reset)

NoDecompressYet ==
    ~InTrace("decompress ko_list.gz") /\ ~InTrace("decompress profiles.tar.gz")

(* C17: the two files are fetched, then expanded, one at a time in list    *)
(* order.  A failed fetch ends the run: nothing later is fetched and       *)
(* nothing is expanded.  Expanding ko_list.gz leaves ko_list and no        *)
(* ko_list.gz; expanding profiles.tar.gz leaves its members under          *)
(* profiles/ and no profiles.tar.gz.  When the second expansion fails the  *)
(* first stays done and the archive stays on disk.                         *)
C17_FilesOneAtATimeInOrder ==
    /\ (pc = "Failed" /\ error.kind = "TransportError") =>
         /\ NoDecompressYet
         /\ fs.ko_list = PreparedDir.ko_list
         /\ fs.profiles = PreparedDir.profiles
         /\ fs.profiles_tar_gz = PreparedDir.profiles_tar_gz
         /\ error.ref = "ko_list.gz" =>
              (~InTrace("download profiles.tar.gz")
                 /\ fs.ko_list_gz = PreparedDir.ko_list_gz)
         /\ error.ref = "profiles.tar.gz" =>
              (InTrace("download ko_list.gz")
                 /\ fs.ko_list_gz = File(remote.ko_list))
    /\ InTrace("decompress ko_list.gz") =>
         /\ trace[Len(trace)] # "decompress ko_list.gz" =>
              (fs.ko_list = File(remote.ko_list) /\ fs.ko_list_gz = NoFile)
         /\ (pc = "Failed" /\ error = [kind |-> "DecompressError",
                                       ref |-> "ko_list.gz"]) =>
              /\ ~InTrace("decompress profiles.tar.gz")
              /\ fs.ko_list = PreparedDir.ko_list
              /\ fs.ko_list_gz = File(remote.ko_list)
         /\ \E i, j \in 1..Len(trace) :
              /\ i < j
              /\ trace[i] = "download profiles.tar.gz"
              /\ trace[j] = "decompress ko_list.gz"
    /\ (pc = "Failed" /\ error = [kind |-> "DecompressError",
                                  ref |-> "profiles.tar.gz"]) =>
         /\ fs.ko_list = File(remote.ko_list)
         /\ fs.ko_list_gz = NoFile
         /\ fs.profiles_tar_gz = Archive(remote.profiles)
         /\ fs.profiles = PreparedDir.profiles
    /\ DecompressDone =>
         /\ fs.ko_list_gz = NoFile
         /\ fs.profiles_tar_gz = NoArchive
         /\ fs.ko_list = File(remote.ko_list)
         /\ ~InTrace("rmtree") =>
              fs.profiles = PreparedDir.profiles \cup remote.profiles

C17_Witness ==
    /\ pc = "Failed"
    /\ error = [kind |-> "DecompressError", ref |-> "profiles.tar.gz"]
    /\ fs.ko_list = File(remote.ko_list)
    /\ fs.ko_list # fs_at_start.ko_list
    /\ remote.profiles # {}

(* C18: every construction begins with the load of ko_list; when the file  *)
(* is missing or unparsable on entry the construction has Failed with the  *)
(* parser's DataAccessError, the load is the only step taken (no tool      *)
(* check, no guard, no directory preparation, no stage) and the directory  *)
(* is as it was.                                                           *)
C18_CatalogLoadedFirst ==
    run_no >= 1
        => /\ trace # <<>> /\ trace[1] = "load_ko_dict"
           /\ (~fs_at_start.exists \/ fs_at_start.ko_list.state # "file") =>
                /\ pc = "Failed"
                /\ error = [kind |-> "DataAccessError",
                            ref |-> ko_list_file_path]
                /\ trace = <<"load_ko_dict">>
                /\ fs = fs_at_start
                /\ hmmpress_calls = <<>>

C18_Witness ==
    /\ pc = "Failed"
    /\ error.kind = "DataAccessError"
    /\ args.reset
    /\ ~hmmpress_installed
    /\ fs.ko_list = Malformed

(* C19: in a run without debug, once hmmpress has been invoked the         *)
(* profiles subdirectory, and with it profiles/K00001.hmm, is gone; a run  *)
(* that failed at hmmpress ends with Kofam.hmm and the log file present    *)
(* and no profile file.                                                    *)
C19_ProfilesGoneBeforeHmmpress ==
    (run_no >= 1 /\ ~args.debug /\ InTrace("hmmpress"))
        => /\ ~fs.profiles_dir
           /\ fs.profiles = {}
           /\ ~MarkerExists(fs)
           /\ trace[Len(trace) - 1] = "rmtree"
           /\ (pc = "Failed") =>
                /\ error.kind = "ExternalToolError"
                /\ fs.kofam_hmm = File(concatenate_files(hmm_list))
                /\ fs.log

C19_Witness ==
    /\ ~args.debug
    /\ pc = "Failed"
    /\ error.kind = "ExternalToolError"
    /\ "K00001" \in Elems(fs.kofam_hmm.content)
    /\ ~MarkerExists(fs)

====
